---- MODULE Spec2Model ----
(***************************************************************************)
(* Model of crates/neon/src/types_impl/extract/mod.rs: the TryFromJs       *)
(* conversion trait (probing form try_from_js, strict form from_js), the   *)
(* TypeExpected error carrier with ResultExt::or_throw, the FromArgs       *)
(* implementations generated by from_args! for tuples, and the             *)
(* single-argument convenience implementation.                             *)
(*                                                                         *)
(* One FunctionContext is modelled: its supplied arguments, the exceptions *)
(* thrown in it, and the position of the extraction call running on it.    *)
(* A tuple extraction is modelled statement by statement: the argv() read  *)
(* of the array pattern, then one step per slot conversion of the tuple    *)
(* expression, so that the order of the conversions is observable.         *)
(***************************************************************************)
EXTENDS Integers, Sequences, FiniteSets, TLC

\* Bounds of the model.
MaxArgs == 2      \* the caller supplies 0..MaxArgs arguments
MaxArity == 2     \* every shape of arity 1..MaxArity is enumerated

\* from_args!([T1..T8], [T9..T32]): the two type-parameter lists.
ShowLen == 8
HideLen == 24

VARIABLES
    args,         \* the arguments the caller supplied to the FunctionContext
    pc,           \* position of the running call
    op,           \* the operation running
    bare,         \* TRUE when called through the single-argument impl
    shape,        \* the static types of the slots, left to right
    argv,         \* the array read by cx.argv()
    reads,        \* raw argument slots read from the context by this call
    slot,         \* the slot whose conversion is evaluated next
    log,          \* the slot conversions invoked by this call, in order
    vals,         \* the converted values so far
    thrown,       \* the exceptions thrown in the context
    inner,        \* the result of the tuple extraction
    result,       \* the result the call returned
    prevNoMatch,  \* the previous call on this context was a probe ending in no match
    probe,        \* a probing-form result (try_from_js)
    strict        \* a strict-form result (from_js, or_throw)

vars == <<args, pc, op, bare, shape, argv, reads, slot, log, vals, thrown,
          inner, result, prevNoMatch, probe, strict>>

-----------------------------------------------------------------------------
(* Dynamic (JavaScript) values and native (Rust) values. *)

JsUndefined == [kind |-> "undefined", num |-> 0, str |-> ""]
JsNull == [kind |-> "null", num |-> 0, str |-> ""]
JsNumber(n) == [kind |-> "number", num |-> n, str |-> ""]
JsString(s) == [kind |-> "string", num |-> 0, str |-> s]

DynValues == {JsUndefined, JsNull, JsNumber(5), JsNumber(3), JsString("a")}

NoValue == [opt |-> "-", ty |-> "", num |-> 0, str |-> ""]
RustF64(n) == [opt |-> "-", ty |-> "f64", num |-> n, str |-> ""]
RustString(s) == [opt |-> "-", ty |-> "String", num |-> 0, str |-> s]
\* The value a conversion of the generic slot type T produces from v.
RustT(v) == [opt |-> "-", ty |-> "T:" \o v.kind, num |-> v.num, str |-> v.str]
RustNone == [opt |-> "None", ty |-> "", num |-> 0, str |-> ""]
RustSome(x) == [x EXCEPT !.opt = "Some"]

\* Slot types: f64, String, a type T known only to implement TryFromJs,
\* and Option of each.
BaseTypes == {"f64", "String", "T"}
Types == [opt : BOOLEAN, base : BaseTypes]
Ty(b) == [opt |-> FALSE, base |-> b]
OptionOf(b) == [opt |-> TRUE, base |-> b]

\* Value::name() of the JavaScript type a native type is extracted from.
ValueName(b) == IF b = "f64" THEN "number" ELSE IF b = "String" THEN "string" ELSE "value"

-----------------------------------------------------------------------------
(* Results. *)

NoExceptions == <<>>
Ok(x) == [tag |-> "Ok", val |-> x, expected |-> "", thrown |-> NoExceptions]
\* Ok(Err(TypeExpected<U>)): the carrier holds its type tag only.
TypeExpected(u) == [tag |-> "Err", val |-> NoValue, expected |-> u, thrown |-> NoExceptions]
\* Ok(Err(e)) for an error type that is not the carrier.
OtherError == [tag |-> "Err", val |-> NoValue, expected |-> "", thrown |-> NoExceptions]
\* Err(Throw): a runtime-level failure, with the exceptions thrown on the way.
Throw(excs) == [tag |-> "Throw", val |-> NoValue, expected |-> "", thrown |-> excs]

TypeError(msg) == [kind |-> "TypeError", msg |-> msg]
HostException == [kind |-> "Error", msg |-> "host"]

\* cx.throw_type_error(msg)
throw_type_error(msg) == Throw(<<TypeError(msg)>>)

\* impl Display for TypeExpected<T>
Display(e) == "expected " \o e.expected

\* impl ResultExt<T> for Result<T, TypeExpected<U>>: or_throw, variants that
\* a slip in the match would produce.
or_throw_swallow(r) ==
    IF r.tag = "Ok" THEN Ok(r.val) ELSE Ok(NoValue)

or_throw_message(r) ==
    IF r.tag = "Ok" THEN Ok(r.val) ELSE throw_type_error("failed to downcast to " \o r.expected)

\* impl ResultExt<T> for Result<T, TypeExpected<U>>: or_throw
or_throw(r) ==
    IF r.tag = "Ok" THEN Ok(r.val) ELSE throw_type_error("expected " \o r.expected)

-----------------------------------------------------------------------------
(* TryFromJs: the outcomes each method of an implementation can have. *)

IsNullOrUndefined(v) == v.kind \in {"null", "undefined"}

\* f64 and String: the probing form.
NativeTryFromJs(b, v) ==
    IF b = "f64"
    THEN IF v.kind = "number" THEN Ok(RustF64(v.num)) ELSE TypeExpected(ValueName(b))
    ELSE IF v.kind = "string" THEN Ok(RustString(v.str)) ELSE TypeExpected(ValueName(b))

\* TryFromJs::try_from_js of a base type: for T the trait fixes the
\* signature only, NeonResult<Result<Self, Self::Error>>; Err(Throw) is
\* returned exactly when an exception is pending.
BaseTryFromJs(b, v) ==
    IF b = "T"
    THEN {Ok(RustT(v)), OtherError, Throw(<<HostException>>)}
    ELSE {NativeTryFromJs(b, v)}

\* f64 and String: the strict form, try_from_js(cx, v)?.or_throw(cx).
NativeFromJs(b, v) == or_throw(NativeTryFromJs(b, v))

\* TryFromJs::from_js of a base type: a required method of its own; for T
\* the trait fixes the signature only, NeonResult<Self>.
BaseFromJs(b, v) ==
    IF b = "T"
    THEN {Ok(RustT(v)), Throw(<<HostException>>)}
    ELSE {NativeFromJs(b, v)}

MapSome(o) == IF o.tag = "Ok" THEN [o EXCEPT !.val = RustSome(o.val)] ELSE o

\* Option<T>: null and undefined are None, anything else is T's.
OptionConvert(v, outcomes) ==
    IF IsNullOrUndefined(v) THEN {Ok(RustNone)} ELSE {MapSome(o) : o \in outcomes}

try_from_js(t, v) ==
    IF t.opt THEN OptionConvert(v, BaseTryFromJs(t.base, v)) ELSE BaseTryFromJs(t.base, v)

from_js(t, v) ==
    IF t.opt THEN OptionConvert(v, BaseFromJs(t.base, v)) ELSE BaseFromJs(t.base, v)

-----------------------------------------------------------------------------
(* from_args!: the implementations the macros generate. *)

TypeParams(from, n) == [i \in 1..n |-> from + i - 1]

RECURSIVE from_args_expand_head(_, _)
\* A from_args_expand! that emits an implementation for its head as well.
from_args_expand_head(head, tail) ==
    {head} \cup
    IF tail = <<>> THEN {}
    ELSE from_args_expand_head(Append(head, Head(tail)), Tail(tail))

RECURSIVE from_args_expand_rec(_, _)
from_args_expand_rec(head, tail) ==
    IF tail = <<>> THEN {}
    ELSE {Append(head, Head(tail))}
            \cup from_args_expand_rec(Append(head, Head(tail)), Tail(tail))

\* from_args_expand!([head], [cur, tail..]): one from_args_impl! for
\* [head.., cur], then the expansion of the rest; nothing for an empty list.
from_args_expand(head, tail) == from_args_expand_rec(head, tail)

\* from_args!([show], [hide])
from_args(show, hide) ==
    from_args_expand(<<>>, show) \cup from_args_expand(show, hide)

\* The type-parameter lists FromArgs is implemented for.
FromArgsImpls == from_args(TypeParams(1, ShowLen), TypeParams(ShowLen + 1, HideLen))
ImplArities == {Len(p) : p \in FromArgsImpls}

\* The shapes enumerated: every shape of a small arity, and the one-type
\* shapes of the last implemented arity.
Shapes ==
    UNION {[1..n -> Types] : n \in ImplArities \cap (0..MaxArity)}
      \cup {[i \in 1..n |-> t] :
                n \in ImplArities \cap {ShowLen + HideLen}, t \in Types}

ArgLists == UNION {[1..m -> DynValues] : m \in 0..MaxArgs}

-----------------------------------------------------------------------------
(* The call context. *)

\* cx.argv::<N>(): N handles, undefined for the positions not supplied.
cx_argv(supplied, n) ==
    [i \in 1..n |-> IF i <= Len(supplied) THEN supplied[i] ELSE JsUndefined]

\* An array pattern that binds one slot fewer than the tuple has.
ArgvLen_short(s) == Len(s) - 1

\* let [$($ty,)*] = cx.argv(): the pattern has one binder per type parameter.
ArgvLen(s) == Len(s)

\* A repetition that hands every conversion the first binder.
SlotArg_first(a, i) == a[1]

\* $ty::from_js(cx, $ty): the binder named as the slot's type parameter.
SlotArg(a, i) == a[i]

-----------------------------------------------------------------------------
(* Results of an extraction call. *)

NoResult == [tag |-> "none", some |-> "-", form |-> "-", val |-> <<>>]
ResOk(tuple) == [tag |-> "Ok", some |-> "-", form |-> "tuple", val |-> tuple]
ResSome(tuple) == [tag |-> "Ok", some |-> "Some", form |-> "tuple", val |-> tuple]
ResNone == [tag |-> "Ok", some |-> "None", form |-> "-", val |-> <<>>]
ResThrow == [tag |-> "Throw", some |-> "-", form |-> "-", val |-> <<>>]

NoOutcome == [tag |-> "none", val |-> NoValue, expected |-> "", thrown |-> NoExceptions]

\* A `?` that does not return: the failed slot is left without a value.
AfterStrict_ignore(o) == "continue"

\* from_js(..)?: go on with the value, or return the failure.
AfterStrict(o) == IF o.tag = "Ok" THEN "continue" ELSE "throw"

\* A match whose mismatch arm escalates.
AfterProbe_escalate(o) ==
    IF o.tag = "Throw" THEN "throw" ELSE IF o.tag = "Ok" THEN "continue" ELSE "throw"

\* A match that treats a runtime-level failure as a mismatch.
AfterProbe_swallow(o) == IF o.tag = "Ok" THEN "continue" ELSE "none"

\* A match whose mismatch arm does not return.
AfterProbe_goon(o) == IF o.tag = "Throw" THEN "throw" ELSE "continue"

\* match try_from_js(..)? { Ok(v) => v, Err(_) => return Ok(None) }
AfterProbe(o) ==
    IF o.tag = "Throw" THEN "throw" ELSE IF o.tag = "Ok" THEN "continue" ELSE "none"

\* A single-argument from_args_opt that drops the value.
SingleFromArgsOpt_none(r) == IF r.tag = "Throw" THEN ResThrow ELSE ResNone

\* impl FromArgsInternal for T: let (v,) = from_args(cx)?; Ok(v)
SingleFromArgs(r) ==
    IF r.tag = "Throw" THEN ResThrow ELSE [r EXCEPT !.form = "bare"]

\* impl FromArgsInternal for T: from_args_opt
SingleFromArgsOpt(r) ==
    IF r.tag = "Throw" THEN ResThrow
    ELSE IF r.some = "Some" THEN [r EXCEPT !.form = "bare"] ELSE ResNone

-----------------------------------------------------------------------------
(* The state machine. *)

Init ==
    /\ args \in ArgLists
    /\ pc = "idle"
    /\ op = "none"
    /\ bare = FALSE
    /\ shape = <<>>
    /\ argv = <<>>
    /\ reads = 0
    /\ slot = 0
    /\ log = <<>>
    /\ vals = <<>>
    /\ thrown = NoExceptions
    /\ inner = NoResult
    /\ result = NoResult
    /\ prevNoMatch = FALSE
    /\ probe = NoOutcome
    /\ strict = NoOutcome

\* cx.args() / cx.args_opt(): FromArgs::from_args or from_args_opt is entered
\* for a tuple type, or for a bare type through the single-argument impl.
Call(o, b, s) ==
    /\ pc = "idle"
    /\ b => Len(s) = 1
    /\ pc' = "argv"
    /\ op' = o
    /\ bare' = b
    /\ shape' = s
    /\ argv' = <<>>
    /\ reads' = 0
    /\ slot' = 0
    /\ log' = <<>>
    /\ vals' = <<>>
    /\ inner' = NoResult
    /\ result' = NoResult
    /\ probe' = NoOutcome
    /\ strict' = NoOutcome
    /\ UNCHANGED <<args, prevNoMatch, thrown>>

\* let [$($ty,)*] = cx.argv();
ReadArgv ==
    /\ pc = "argv"
    /\ argv' = cx_argv(args, ArgvLen(shape))
    /\ reads' = reads + Len(argv')
    /\ slot' = 1
    /\ pc' = "conv"
    /\ UNCHANGED <<args, prevNoMatch, op, bare, shape, log, vals, thrown, inner, result,
                   probe, strict>>

\* The tuple extraction returns r to its caller.
TupleReturn(r) ==
    /\ inner' = r
    /\ result' = IF bare THEN NoResult ELSE r
    /\ pc' = IF bare THEN "adapter" ELSE "done"

LogEntry(form, o) == [slot |-> slot, form |-> form, tag |-> o.tag, val |-> o.val]

\* One element of Ok(($($ty::from_js(cx, $ty)?,)*)).
FromArgsConv ==
    /\ pc = "conv"
    /\ op = "from_args"
    /\ slot <= Len(shape)
    /\ \E o \in from_js(shape[slot], SlotArg(argv, slot)) :
          /\ log' = Append(log, LogEntry("from_js", o))
          /\ thrown' = thrown \o o.thrown
          /\ IF AfterStrict(o) = "continue"
             THEN /\ vals' = Append(vals, o.val)
                  /\ slot' = slot + 1
                  /\ UNCHANGED <<pc, inner, result>>
             ELSE /\ TupleReturn(ResThrow)
                  /\ UNCHANGED <<vals, slot>>
    /\ UNCHANGED <<args, prevNoMatch, op, bare, shape, argv, reads, probe, strict>>

\* One element of Ok(Some(($(match $ty::try_from_js(cx, $ty)? {..},)*))).
FromArgsOptConv ==
    /\ pc = "conv"
    /\ op = "from_args_opt"
    /\ slot <= Len(shape)
    /\ \E o \in try_from_js(shape[slot], SlotArg(argv, slot)) :
          /\ log' = Append(log, LogEntry("try_from_js", o))
          /\ thrown' = thrown \o o.thrown
          /\ IF AfterProbe(o) = "continue"
             THEN /\ vals' = Append(vals, o.val)
                  /\ slot' = slot + 1
                  /\ UNCHANGED <<pc, inner, result>>
             ELSE /\ TupleReturn(IF AfterProbe(o) = "none" THEN ResNone ELSE ResThrow)
                  /\ UNCHANGED <<vals, slot>>
    /\ UNCHANGED <<args, prevNoMatch, op, bare, shape, argv, reads, probe, strict>>

\* Every element is evaluated: Ok((..)) or Ok(Some((..))).
TupleOk ==
    /\ pc = "conv"
    /\ op \in {"from_args", "from_args_opt"}
    /\ slot > Len(shape)
    /\ TupleReturn(IF op = "from_args" THEN ResOk(vals) ELSE ResSome(vals))
    /\ UNCHANGED <<args, prevNoMatch, op, bare, shape, argv, reads, slot, log, vals, thrown,
                   probe, strict>>

\* The single-argument impl takes the value out of the one-element tuple.
SingleReturn ==
    /\ pc = "adapter"
    /\ result' = IF op = "from_args" THEN SingleFromArgs(inner)
                                     ELSE SingleFromArgsOpt(inner)
    /\ pc' = "done"
    /\ UNCHANGED <<args, prevNoMatch, op, bare, shape, argv, reads, slot, log, vals, thrown,
                   inner, probe, strict>>

\* T::try_from_js(cx, v) on the first argument.
ConvertProbe(t) ==
    /\ pc = "idle"
    /\ op' = "convert"
    /\ bare' = FALSE
    /\ shape' = <<t>>
    /\ argv' = cx_argv(args, 1)
    /\ reads' = 1
    /\ \E o \in try_from_js(t, argv'[1]) :
          /\ probe' = o
          /\ thrown' = thrown \o o.thrown
    /\ strict' = NoOutcome
    /\ pc' = "probed"
    /\ UNCHANGED <<args, prevNoMatch, slot, log, vals, inner, result>>

\* T::from_js(cx, v) on the same value.
ConvertStrict ==
    /\ pc = "probed"
    /\ \E o \in from_js(shape[1], argv[1]) :
          /\ strict' = o
          /\ thrown' = thrown \o o.thrown
    /\ pc' = "done"
    /\ UNCHANGED <<args, prevNoMatch, op, bare, shape, argv, reads, slot, log, vals, inner,
                   result, probe>>

\* The results or_throw is applied to: Result<T, TypeExpected<U>>.
CarrierResults ==
    {Ok(RustF64(5)), Ok(RustString("a")), Ok(RustNone)}
        \cup {TypeExpected(ValueName(b)) : b \in BaseTypes}

\* r.or_throw(cx)
OrThrowCall(r) ==
    /\ pc = "idle"
    /\ op' = "or_throw"
    /\ probe' = r
    /\ strict' = or_throw(r)
    /\ thrown' = thrown \o strict'.thrown
    /\ pc' = "done"
    /\ bare' = FALSE
    /\ shape' = <<>>
    /\ argv' = <<>>
    /\ reads' = 0
    /\ UNCHANGED <<args, prevNoMatch, slot, log, vals, inner, result>>

\* The call returned without a runtime-level failure: the function goes on
\* with the same context.
Return ==
    /\ pc = "done"
    /\ result.tag # "Throw"
    /\ thrown = NoExceptions
    /\ pc' = "idle"
    /\ prevNoMatch' = (op = "from_args_opt" /\ result.some = "None")
    /\ op' = "none"
    /\ bare' = FALSE
    /\ shape' = <<>>
    /\ argv' = <<>>
    /\ reads' = 0
    /\ slot' = 0
    /\ log' = <<>>
    /\ vals' = <<>>
    /\ inner' = NoResult
    /\ result' = NoResult
    /\ probe' = NoOutcome
    /\ strict' = NoOutcome
    /\ UNCHANGED <<args, thrown>>

Next ==
    \/ /\ pc = "idle"
       /\ \E o \in {"from_args", "from_args_opt"}, b \in BOOLEAN, s \in Shapes :
             Call(o, b, s)
    \/ ReadArgv
    \/ FromArgsConv
    \/ FromArgsOptConv
    \/ TupleOk
    \/ SingleReturn
    \/ /\ pc = "idle"
       /\ \E t \in Types : ConvertProbe(t)
    \/ ConvertStrict
    \/ /\ pc = "idle"
       /\ \E r \in CarrierResults : OrThrowCall(r)
    \/ Return

Spec == Init /\ [][Next]_vars

-----------------------------------------------------------------------------
(* Properties. *)

TupleOps == {"from_args", "from_args_opt"}
\* The tuple extraction has returned to its caller.
Returned == op \in TupleOps /\ pc \in {"adapter", "done"}
\* The conversions were invoked on slots 1, 2, .. in that order, once each.
LeftToRight(form) ==
    /\ Len(log) <= Len(shape)
    /\ \A i \in 1..Len(log) : log[i].slot = i /\ log[i].form = form
\* No conversion was invoked after one that did not succeed.
StoppedAtFirstFailure == \A i \in 1..(Len(log) - 1) : log[i].tag = "Ok"
LastTag == IF log = <<>> THEN "none" ELSE log[Len(log)].tag
\* The tuple of the converted values, in slot order.
Converted == [i \in 1..Len(log) |-> log[i].val]
\* The argument at a position, undefined when the caller did not supply it.
ArgAt(i) == IF i <= Len(args) THEN args[i] ELSE JsUndefined
\* The value f64 and String produce from the argument at a position.
NativeOf(b, i) == IF b = "f64" THEN RustF64(ArgAt(i).num) ELSE RustString(ArgAt(i).str)
ValuesOfArguments ==
    \A i \in 1..Len(shape) :
        (~shape[i].opt /\ shape[i].base # "T") => inner.val[i] = NativeOf(shape[i].base, i)

\* C1: from_args applies from_js to slots 1..N strictly left to right and
\* stops at the first slot whose strict conversion fails: it then returns a
\* runtime-level failure, slots 1..k have each been converted once in that
\* order and no later slot is converted; when no slot fails it returns the
\* tuple of the N converted values in slot order.
C1_StrictLeftToRightShortCircuit ==
    op = "from_args" =>
        /\ LeftToRight("from_js")
        /\ StoppedAtFirstFailure
        /\ (LastTag \notin {"none", "Ok"}) => (Returned /\ inner = ResThrow)
        /\ (Returned /\ inner.tag = "Throw") => LastTag = "Throw"
        /\ (pc = "done" /\ inner.tag = "Throw") => result = ResThrow
        /\ Returned => inner.tag \in {"Ok", "Throw"}
        /\ (Returned /\ inner.tag = "Ok") =>
              /\ Len(log) = Len(shape)
              /\ LastTag = "Ok"
              /\ inner = ResOk(Converted)
              /\ ValuesOfArguments

\* A two-slot required extraction failed at slot 1 and never converted slot 2.
C1_Witness ==
    /\ op = "from_args" /\ pc = "done" /\ ~bare
    /\ Len(shape) = 2
    /\ result = ResThrow
    /\ Len(log) = 1 /\ log[1].slot = 1

\* C2: from_args_opt applies try_from_js to the slots left to right; at the
\* first slot that reports a shape mismatch it returns Ok(None), throws no
\* exception and converts no later slot; when every slot matches it returns
\* Ok(Some) of the tuple of the N converted values in slot order.
C2_ProbeMismatchIsNoMatch ==
    op = "from_args_opt" =>
        /\ LeftToRight("try_from_js")
        /\ StoppedAtFirstFailure
        /\ LastTag = "Err" => (Returned /\ inner = ResNone /\ thrown = NoExceptions)
        /\ (Returned /\ inner.tag = "Ok" /\ inner.some = "None") => LastTag = "Err"
        /\ (Returned /\ inner.tag = "Ok") => inner.some \in {"Some", "None"}
        /\ (Returned /\ inner.some = "Some") =>
              /\ Len(log) = Len(shape)
              /\ LastTag = "Ok"
              /\ inner = ResSome(Converted)
              /\ ValuesOfArguments
              /\ thrown = NoExceptions

\* A two-slot probe ended in no match at slot 1 and never converted slot 2.
C2_Witness ==
    /\ op = "from_args_opt" /\ pc = "done" /\ ~bare
    /\ Len(shape) = 2
    /\ result = ResNone
    /\ Len(log) = 1 /\ log[1].tag = "Err"

\* C3: a runtime-level failure of a slot conversion invoked by from_args_opt
\* is returned by from_args_opt at once as a runtime-level failure, never as
\* no match or as a match; no further slot is converted and the failed one
\* is not converted again.
C3_ProbeNeverSwallowsThrow ==
    op = "from_args_opt" =>
        /\ \A i \in 1..Len(log) :
              log[i].tag = "Throw" =>
                  /\ i = Len(log)
                  /\ Returned
                  /\ inner = ResThrow
                  /\ pc = "done" => result = ResThrow
        /\ \A i, j \in 1..Len(log) : log[i].slot = log[j].slot => i = j
        /\ (Returned /\ inner.tag = "Throw") => LastTag = "Throw"

\* A two-slot probe met a runtime-level failure at slot 1.
C3_Witness ==
    /\ op = "from_args_opt" /\ pc = "done"
    /\ Len(shape) = 2
    /\ Len(log) = 1 /\ log[1].tag = "Throw"
    /\ result = ResThrow
    /\ thrown # NoExceptions

\* The strict result is the probing result escalated.
ProbeThenEscalate ==
    /\ probe.tag = "Ok" => (strict.tag = "Ok" /\ strict.val = probe.val)
    /\ probe.tag = "Err" => (strict.tag = "Throw" /\ strict.thrown # NoExceptions)
    /\ probe.tag = "Throw" => strict.tag = "Throw"
    /\ strict.tag = "Ok" => probe.tag = "Ok"

C5_ReadsExactlyArity ==
    op \in TupleOps =>
        /\ pc = "argv" => (reads = 0 /\ log = <<>>)
        /\ pc \in {"conv", "adapter", "done"} =>
              /\ reads = Len(shape)
              /\ Len(argv) = Len(shape)
              /\ \A i \in 1..Len(shape) : argv[i] = ArgAt(i)
        /\ log # <<>> => reads = Len(shape)

\* A 32-arity extraction has read 32 slots, the last as undefined, with
\* fewer arguments supplied.
C5_Witness ==
    /\ op \in TupleOps /\ pc = "conv"
    /\ Len(shape) = ShowLen + HideLen
    /\ Len(args) < Len(shape)
    /\ reads = ShowLen + HideLen
    /\ argv[ShowLen + HideLen] = JsUndefined
    /\ log = <<>>

\* What an extraction of a shape of f64, String and Option of them returns
\* on a context with the arguments args on which nothing has run.
DeterministicShape == \A i \in 1..Len(shape) : shape[i].base # "T"
ProbeOfSlot(i) == CHOOSE o \in try_from_js(shape[i], ArgAt(i)) : TRUE
Mismatches == {i \in 1..Len(shape) : ProbeOfSlot(i).tag # "Ok"}
Extracted == [i \in 1..Len(shape) |-> ProbeOfSlot(i).val]
OnFreshContext ==
    IF Mismatches # {}
    THEN IF op = "from_args" THEN ResThrow ELSE ResNone
    ELSE [tag |-> "Ok",
          some |-> IF op = "from_args" THEN "-" ELSE "Some",
          form |-> IF bare THEN "bare" ELSE "tuple",
          val |-> Extracted]

Five3 == <<JsNumber(5), JsNumber(3)>>

C6_NoMatchLeavesContext ==
    /\ (op = "from_args_opt" /\ Returned /\ inner = ResNone) => thrown = NoExceptions
    /\ (pc = "idle" /\ prevNoMatch) => thrown = NoExceptions
    /\ (prevNoMatch /\ op \in TupleOps /\ pc = "done" /\ DeterministicShape) =>
          result = OnFreshContext
    /\ (op = "from_args_opt" /\ pc = "done" /\ ~bare /\ args = Five3) =>
          /\ shape = <<Ty("f64"), Ty("f64")>> =>
                result = ResSome(<<RustF64(5), RustF64(3)>>)
          /\ shape = <<Ty("String"), Ty("String")>> =>
                (result = ResNone /\ Len(log) = 1 /\ log[1].slot = 1)

\* C6: a probe that ends in no match leaves the context's arguments
\* unchanged and no exception pending, and the extraction that follows it on
\* the same context returns what it returns on a fresh context; for the
\* arguments (5, 3) the probe of (f64, f64) matches with (5.0, 3.0) and the
\* probe of (String, String) ends in no match at slot 1.
C6_NoMatchIsFrameNeutral ==
    [](C6_NoMatchLeavesContext) /\ [][args' = args]_vars

\* On the arguments (5, 3), after a probe that ended in no match, the probe
\* of (f64, f64) matched.
C6_Witness ==
    /\ prevNoMatch
    /\ args = Five3
    /\ op = "from_args_opt" /\ pc = "done"
    /\ shape = <<Ty("f64"), Ty("f64")>>
    /\ result.some = "Some"

\* C7: an Option<T> slot whose argument is null, undefined or missing
\* yields None, never a mismatch or an exception, in both forms; for any
\* other argument its outcome is T's own, Some(x) when T yields x.
C7_OptionSlot ==
    op \in TupleOps =>
        \A i \in 1..Len(log) :
            LET e == log[i]
                t == shape[e.slot]
                v == ArgAt(e.slot)
                own == IF e.form = "from_js" THEN BaseFromJs(t.base, v)
                                            ELSE BaseTryFromJs(t.base, v)
            IN  t.opt =>
                  IF e.slot > Len(args) \/ v.kind \in {"null", "undefined"}
                  THEN e.tag = "Ok" /\ e.val = RustNone
                  ELSE \E o \in own :
                          /\ e.tag = o.tag
                          /\ e.val = IF o.tag = "Ok" THEN RustSome(o.val) ELSE o.val

\* A required extraction of two slots converted a missing trailing
\* Option slot to None after a supplied first one.
C7_Witness ==
    /\ op = "from_args" /\ pc = "done"
    /\ Len(shape) = 2 /\ shape[2] = OptionOf("f64")
    /\ Len(args) = 1
    /\ Len(log) = 2 /\ log[2].tag = "Ok" /\ log[2].val = RustNone
    /\ result.tag = "Ok"

\* C8: a bare type T extracts as the one-element tuple (T,): from_args
\* returns Ok(v) exactly when the tuple's from_args returns Ok((v,)) and a
\* runtime-level failure exactly when it does; from_args_opt returns
\* Some(v), None or a runtime-level failure exactly when the tuple's returns
\* Some((v,)), None or a runtime-level failure; one raw argument is read and
\* T's conversion is invoked once.
C8_BareIsOneTuple ==
    (bare /\ op \in TupleOps) =>
        /\ Len(shape) = 1
        /\ pc = "done" =>
              /\ reads = 1
              /\ Len(log) = 1
              /\ result.tag = inner.tag
              /\ result.some = inner.some
              /\ result.val = inner.val
              /\ result.tag = "Ok" =>
                    IF op = "from_args" \/ result.some = "Some"
                    THEN result.form = "bare" /\ result.val = <<log[1].val>>
                    ELSE result = ResNone

\* A bare type probed to a match.
C8_Witness ==
    /\ bare /\ op = "from_args_opt" /\ pc = "done"
    /\ inner.some = "Some"
    /\ result.some = "Some" /\ result.form = "bare"
    /\ Len(result.val) = 1

\* C9: or_throw on Result<T, TypeExpected<U>> returns a success value
\* unchanged and throws nothing; on the carrier it returns a runtime-level
\* failure after throwing exactly one type error whose message is the
\* carrier's display text "expected <name of U>"; the carrier holds nothing
\* but its type tag.
C9_OrThrowCarrier ==
    (op = "or_throw" /\ pc = "done") =>
        IF probe.tag = "Ok"
        THEN strict = Ok(probe.val) /\ thrown = NoExceptions
        ELSE /\ probe = TypeExpected(probe.expected)
             /\ strict.tag = "Throw"
             /\ strict.val = NoValue
             /\ Len(thrown) = 1
             /\ thrown[1].kind = "TypeError"
             /\ thrown[1].msg = Display(probe)
             /\ thrown[1].msg = "expected " \o probe.expected

\* The carrier of JsNumber was escalated.
C9_Witness ==
    /\ op = "or_throw" /\ pc = "done"
    /\ probe = TypeExpected("number")
    /\ strict.tag = "Throw"
    /\ thrown = <<TypeError("expected number")>>

\* C10 as stated: the family provides a zero-arity extraction, which
\* succeeds in both forms, reading no argument and invoking no conversion.
C10_ZeroArityProvided ==
    /\ 0 \in ImplArities
    /\ (op \in TupleOps /\ pc = "done" /\ Len(shape) = 0) =>
          (result.tag = "Ok" /\ reads = 0 /\ log = <<>>)

\* C10: from_args! generates the tuple implementations of arities 1..32 and
\* none of arity 0, so every extraction the family provides reads at least
\* one argument slot and invokes at least one conversion.
C10_AritiesOneToThirtyTwo ==
    /\ ImplArities = 1..(ShowLen + HideLen)
    /\ op \in TupleOps => Len(shape) \in ImplArities
    /\ (op \in TupleOps /\ pc = "done") => (reads >= 1 /\ Len(log) >= 1)

\* The extraction of the last implemented arity succeeded.
C10_Witness ==
    /\ op \in TupleOps /\ pc = "done"
    /\ Len(shape) = ShowLen + HideLen
    /\ reads = ShowLen + HideLen
    /\ Len(log) = ShowLen + HideLen
    /\ result.tag = "Ok"

====
